---- MODULE Spec2Model ----
(***************************************************************************)
(* AssetSellingModel (src/AssetSelling/AssetSellingModel.py).              *)
(*                                                                         *)
(* A caller owns exog_params mapping objects, builds model instances from  *)
(* them and calls step on the instances.  Numbers are exact: probabilities *)
(* and the uniform draw are counted in units of 1/ProbScale, prices are    *)
(* integers, and price_smoothed is a fraction num/den.  The random source  *)
(* of a seed is one fixed stream whose values are revealed as they are     *)
(* drawn: two instances with one seed read the same values at the same     *)
(* positions.                                                              *)
(***************************************************************************)
EXTENDS Integers, Sequences, FiniteSets

VARIABLES exog, supplied, built, ref, seed, rngpos, stream, initial_state,
          state, objective, trace, calls

vars == <<exog, supplied, built, ref, seed, rngpos, stream, initial_state,
          state, objective, trace, calls>>

-----------------------------------------------------------------------------
(* Bounds of the model *)

\* total number of step calls the caller makes, over all instances
MaxCalls == 2

\* resolution of probabilities and of the uniform draw: 1.0 is ProbScale
ProbScale == 3

ModelIds == {1, 2}
ExogIds  == {1, 2}
Seeds    == {42}

-----------------------------------------------------------------------------
(* Configuration the caller supplies *)

Regimes == {"Up", "Neutral", "Down"}

UpStep   == 1
DownStep == 0 - 1
Variance == 2

\* alpha = 0.7 = AlphaNum / AlphaDen
AlphaNum == 7
AlphaDen == 10

\* raw per-row transition probabilities, as the caller writes them
RawBiasdf ==
    [r \in Regimes |->
        CASE r = "Up"      -> [Up |-> 1, Neutral |-> ProbScale - 2, Down |-> 1]
          [] r = "Neutral" -> [Up |-> 1, Neutral |-> 0, Down |-> ProbScale - 1]
          [] r = "Down"    -> [Up |-> 0, Neutral |-> 1, Down |-> ProbScale - 1]]

\* a table whose Up row sums to less than 1
ShortBiasdf == [RawBiasdf EXCEPT !["Up"] = [Up |-> 1, Neutral |-> 1, Down |-> 0]]

\* a table whose Neutral row sums to more than 1
LongBiasdf ==
    [RawBiasdf EXCEPT !["Neutral"] = [Up |-> 1, Neutral |-> 1, Down |-> ProbScale]]

\* the biasdf tables a caller may put into exog_params
RawTables == {RawBiasdf, ShortBiasdf, LongBiasdf}

\* values of prng.uniform(), in [0, 1)
Coins == 0 .. (ProbScale - 1)
\* values of the standard normal deviate behind prng.normal(loc, scale)
Deviates == {0 - 1, 1}

\* decision.sell: 1 sells, 0 holds, 2 stands for any other value
Decisions == {0, 1, 2}

\* state_0 dicts the caller constructs models from
InitialStates ==
    { [resource |-> 1, price |-> 1, price_smoothed |-> [num |-> 1, den |-> 1],
       bias |-> "Neutral"],
      [resource |-> 2, price |-> 0 - 1,
       price_smoothed |-> [num |-> 0 - 1, den |-> 1], bias |-> "Up"],
      [resource |-> 1, price |-> 1, price_smoothed |-> [num |-> 1, den |-> 1],
       bias |-> "Sideways"] }

NoState == [resource |-> 0, price |-> 0, price_smoothed |-> [num |-> 0, den |-> 1],
            bias |-> "none"]

-----------------------------------------------------------------------------
(* Pure parts of the code *)

\* biasdf.cumsum(axis=1): running sums along each row
CumSum(biasdf) ==
    [r \in DOMAIN biasdf |->
        [Up      |-> biasdf[r].Up,
         Neutral |-> biasdf[r].Up + biasdf[r].Neutral,
         Down    |-> biasdf[r].Up + biasdf[r].Neutral + biasdf[r].Down]]

\* NewBias with the Up branch taken at the boundary too (<= for <)
NewBiasInclusive(biasprob, coin) ==
    IF coin <= biasprob.Up THEN "Up"
    ELSE IF coin >= biasprob.Up /\ coin < biasprob.Neutral THEN "Neutral"
    ELSE "Down"

\* NewBias whose last branch writes a label that is no row key of biasdf
NewBiasMislabelled(biasprob, coin) ==
    IF coin < biasprob.Up THEN "Up"
    ELSE IF coin >= biasprob.Up /\ coin < biasprob.Neutral THEN "Neutral"
    ELSE "down"

\* the if / elif / else of exog_info_fn on the row of the current regime
NewBias(biasprob, coin) ==
    IF coin < biasprob.Up THEN "Up"
    ELSE IF coin >= biasprob.Up /\ coin < biasprob.Neutral THEN "Neutral"
    ELSE "Down"

\* the mean of the price change that goes with the selected regime
Drift(new_bias) ==
    CASE new_bias = "Up"      -> UpStep
      [] new_bias = "Neutral" -> 0
      [] OTHER                -> DownStep

\* prng.normal(bias, Variance): loc + scale * standard deviate
PriceDelta(bias, z) == bias + Variance * z

\* ClampPrice without the clamp
ClampPriceMissing(updated_price) == updated_price

\* new_price = 0.0 if updated_price < 0.0 else updated_price
ClampPrice(updated_price) == IF updated_price < 0 THEN 0 ELSE updated_price

\* ExogInfoFn drawing the price change around the drift of the regime it leaves
ExogInfoFnOldDrift(s, biasprob, coin, z) ==
    LET new_bias == NewBias(biasprob, coin)
    IN  [price |-> ClampPrice(s.price + PriceDelta(Drift(s.bias), z)),
         bias  |-> new_bias,
         draws |-> 2]

\* biasdf.T[self.state.bias]: the row of the current regime
BiasProb(biasdf, bias) == biasdf[bias]

\* ExogInfoFn taking no normal draw in the branch that has no drift
ExogInfoFnSkipsDraw(s, biasprob, coin, z) ==
    LET new_bias == NewBias(biasprob, coin)
    IN  [price |-> ClampPrice(s.price + PriceDelta(Drift(new_bias), z)),
         bias  |-> new_bias,
         draws |-> IF new_bias = "Neutral" THEN 1 ELSE 2]

\* exog_info_fn, given the row it looked up and the two values it drew;
\* draws is the number of values it takes from self.prng
ExogInfoFn(s, biasprob, coin, z) ==
    LET new_bias == NewBias(biasprob, coin)
    IN  [price |-> ClampPrice(s.price + PriceDelta(Drift(new_bias), z)),
         bias  |-> new_bias,
         draws |-> 2]

\* TransitionFn smoothing the price held before the step
TransitionFnOldPrice(sell, exog_info, s) ==
    [resource       |-> IF sell = 1 THEN 0 ELSE s.resource,
     price_smoothed |->
        [num |-> (AlphaDen - AlphaNum) * s.price_smoothed.num
                   + AlphaNum * s.price * s.price_smoothed.den,
         den |-> AlphaDen * s.price_smoothed.den]]

\* TransitionFn testing the truth of decision.sell instead of sell == 1
TransitionFnTruthy(sell, exog_info, s) ==
    [resource       |-> IF sell # 0 THEN 0 ELSE s.resource,
     price_smoothed |->
        [num |-> (AlphaDen - AlphaNum) * s.price_smoothed.num
                   + AlphaNum * exog_info.price * s.price_smoothed.den,
         den |-> AlphaDen * s.price_smoothed.den]]

\* TransitionFn selling one unit of the resource instead of all of it
TransitionFnDecrements(sell, exog_info, s) ==
    [resource       |-> IF sell = 1 /\ s.resource > 0 THEN s.resource - 1
                        ELSE s.resource,
     price_smoothed |->
        [num |-> (AlphaDen - AlphaNum) * s.price_smoothed.num
                   + AlphaNum * exog_info.price * s.price_smoothed.den,
         den |-> AlphaDen * s.price_smoothed.den]]

\* TransitionFn whose hold branch restores the unit instead of keeping resource
TransitionFnRestocks(sell, exog_info, s) ==
    [resource       |-> IF sell = 1 THEN 0 ELSE 1,
     price_smoothed |->
        [num |-> (AlphaDen - AlphaNum) * s.price_smoothed.num
                   + AlphaNum * exog_info.price * s.price_smoothed.den,
         den |-> AlphaDen * s.price_smoothed.den]]

\* transition_fn in state s
TransitionFn(sell, exog_info, s) ==
    [resource       |-> IF sell = 1 THEN 0 ELSE s.resource,
     price_smoothed |->
        [num |-> (AlphaDen - AlphaNum) * s.price_smoothed.num
                   + AlphaNum * exog_info.price * s.price_smoothed.den,
         den |-> AlphaDen * s.price_smoothed.den]]

\* ObjectiveFn paying the newly generated price
ObjectiveFnNewPrice(sell, exog_info, s) ==
    LET sell_size == IF sell = 1 /\ s.resource # 0 THEN 1 ELSE 0
    IN  exog_info.price * sell_size

\* ObjectiveFn without the test of the resource held
ObjectiveFnNoResourceTest(sell, exog_info, s) ==
    LET sell_size == IF sell = 1 THEN 1 ELSE 0
    IN  s.price * sell_size

\* ObjectiveFn without the test of the decision
ObjectiveFnNoSellTest(sell, exog_info, s) ==
    LET sell_size == IF s.resource # 0 THEN 1 ELSE 0
    IN  s.price * sell_size

\* objective_fn in state s
ObjectiveFn(sell, exog_info, s) ==
    LET sell_size == IF sell = 1 /\ s.resource # 0 THEN 1 ELSE 0
    IN  s.price * sell_size

\* build_state(exog_info) after exog_info.update(transition)
BuildState(info) ==
    [resource |-> info.resource, price |-> info.price,
     price_smoothed |-> info.price_smoothed, bias |-> info.bias]

\* position p of the stream of seed sd has been drawn before
Revealed(sd, p) == p <= Len(stream[sd])
\* position p of the stream of seed sd yields v as a draw of the given kind
Draws(sd, p, kind, v) == Revealed(sd, p) => stream[sd][p] = <<kind, v>>

-----------------------------------------------------------------------------
\* the state before any instance is constructed, with the biasdf tables the
\* caller has put into the mapping objects
Start(tables) ==
    /\ exog \in [ExogIds -> tables]
    /\ supplied = exog
    /\ built = [m \in ModelIds |-> FALSE]
    /\ ref = [m \in ModelIds |-> 0]
    /\ seed = [m \in ModelIds |-> 0]
    /\ rngpos = [m \in ModelIds |-> 0]
    /\ stream = [sd \in Seeds |-> <<>>]
    /\ initial_state = [m \in ModelIds |-> NoState]
    /\ state = [m \in ModelIds |-> NoState]
    /\ objective = [m \in ModelIds |-> 0]
    /\ trace = [m \in ModelIds |-> <<>>]
    /\ calls = 0

\* every mapping object holds the valid table
Init == Start({RawBiasdf})

\* mapping objects hold valid tables or tables with a row that does not sum to 1
InitAnyTable == Start(RawTables)

\* AssetSellingModel(state_variable, decision_variable, state_0, exog_0 = e, seed = sd)
\* Instances and mapping objects are numbered in the order of their first use.
Construct(m, e, sd, state_0) ==
    /\ ~built[m]
    /\ \A k \in ModelIds : k < m => built[k]
    /\ \A k \in ExogIds : k < e => \E n \in ModelIds : built[n] /\ ref[n] = k
    /\ exog' = [exog EXCEPT ![e] = CumSum(exog[e])]
    /\ built' = [built EXCEPT ![m] = TRUE]
    /\ ref' = [ref EXCEPT ![m] = e]
    /\ seed' = [seed EXCEPT ![m] = sd]
    /\ rngpos' = [rngpos EXCEPT ![m] = 0]
    /\ initial_state' = [initial_state EXCEPT ![m] = state_0]
    /\ state' = [state EXCEPT ![m] = state_0]
    /\ objective' = [objective EXCEPT ![m] = 0]
    /\ UNCHANGED <<supplied, stream, trace, calls>>

\* step(decision) that runs to its return
StepReturns(m, sell) ==
    /\ built[m]
    /\ calls < MaxCalls
    /\ state[m].bias \in DOMAIN exog[ref[m]]
    /\ \E coin \in Coins, z \in Deviates :
         LET s          == state[m]
             biasprob   == BiasProb(exog[ref[m]], s.bias)
             exog_info  == ExogInfoFn(s, biasprob, coin, z)
             obj_part   == ObjectiveFn(sell, exog_info, s)
             transition == TransitionFn(sell, exog_info, s)
             new_state  == BuildState([resource       |-> transition.resource,
                                       price_smoothed |-> transition.price_smoothed,
                                       price          |-> exog_info.price,
                                       bias           |-> exog_info.bias])
         IN  /\ Draws(seed[m], rngpos[m] + 1, "uniform", coin)
             /\ Draws(seed[m], rngpos[m] + 2, "normal", z)
             /\ stream' = IF Revealed(seed[m], rngpos[m] + 2) THEN stream
                          ELSE [stream EXCEPT ![seed[m]] =
                                   @ \o << <<"uniform", coin>>, <<"normal", z>> >>]
             /\ rngpos' = [rngpos EXCEPT ![m] = @ + exog_info.draws]
             /\ objective' = [objective EXCEPT ![m] = @ + obj_part]
             /\ state' = [state EXCEPT ![m] = new_state]
             /\ trace' = [trace EXCEPT ![m] = Append(@,
                            [sell |-> sell, ok |-> TRUE, coin |-> coin, z |-> z,
                             up |-> biasprob.Up, neutral |-> biasprob.Neutral,
                             before |-> s, state |-> new_state,
                             objective |-> objective[m] + obj_part,
                             rng |-> rngpos[m] + exog_info.draws])]
    /\ calls' = calls + 1
    /\ UNCHANGED <<exog, supplied, built, ref, seed, initial_state>>

\* StepRaises with the lookup of the regime made after the uniform draw
StepRaisesAfterDraw(m, sell) ==
    /\ built[m]
    /\ calls < MaxCalls
    /\ state[m].bias \notin DOMAIN exog[ref[m]]
    /\ rngpos' = [rngpos EXCEPT ![m] = @ + 1]
    /\ trace' = [trace EXCEPT ![m] = Append(@,
                   [sell |-> sell, ok |-> FALSE, coin |-> 0, z |-> 0, up |-> 0,
                    neutral |-> 0, before |-> state[m], state |-> state[m],
                    objective |-> objective[m], rng |-> rngpos[m] + 1])]
    /\ calls' = calls + 1
    /\ UNCHANGED <<exog, supplied, built, ref, seed, stream, initial_state,
                   state, objective>>

\* step(decision) that raises KeyError at biasdf[self.state.bias]
StepRaises(m, sell) ==
    /\ built[m]
    /\ calls < MaxCalls
    /\ state[m].bias \notin DOMAIN exog[ref[m]]
    /\ trace' = [trace EXCEPT ![m] = Append(@,
                   [sell |-> sell, ok |-> FALSE, coin |-> 0, z |-> 0, up |-> 0,
                    neutral |-> 0, before |-> state[m], state |-> state[m],
                    objective |-> objective[m], rng |-> rngpos[m]])]
    /\ calls' = calls + 1
    /\ UNCHANGED <<exog, supplied, built, ref, seed, rngpos, stream, initial_state,
                   state, objective>>

Step(m, sell) == StepReturns(m, sell) \/ StepRaises(m, sell)

Next ==
    \/ \E m \in ModelIds, e \in ExogIds, sd \in Seeds, state_0 \in InitialStates :
          Construct(m, e, sd, state_0)
    \/ \E m \in ModelIds, sell \in Decisions : Step(m, sell)

Spec == Init /\ [][Next]_vars

\* the same program, for callers that may also supply tables with invalid rows
SpecAnyTable == InitAnyTable /\ [][Next]_vars

-----------------------------------------------------------------------------
(* Properties *)

Built == {m \in ModelIds : built[m]}
Calls(m) == 1 .. Len(trace[m])
\* the calls of m that ran to their return
Returned(m) == {i \in Calls(m) : trace[m][i].ok}
\* objective of m before its i-th call
ObjectiveBefore(m, i) == IF i = 1 THEN 0 ELSE trace[m][i - 1].objective
\* the price change drawn in the i-th call of m
DeltaOf(m, i) == PriceDelta(Drift(trace[m][i].state.bias), trace[m][i].z)

\* number of values m had taken from its random source before its i-th call
RngBefore(m, i) == IF i = 1 THEN 0 ELSE trace[m][i - 1].rng
\* the rows of a raw table sum to 1
RowsSumToOne(biasdf) ==
    \A r \in DOMAIN biasdf :
        biasdf[r].Up + biasdf[r].Neutral + biasdf[r].Down = ProbScale

\* C1: two instances built with the same seed and the same construction
\* inputs (every mapping object is supplied holding RawBiasdf) and given the
\* same decisions produce the same State sequence and the same objective.
Determinism ==
    \A m1 \in Built, m2 \in Built :
        ( /\ seed[m1] = seed[m2]
          /\ initial_state[m1] = initial_state[m2]
          /\ Len(trace[m1]) = Len(trace[m2])
          /\ \A i \in Calls(m1) : trace[m1][i].sell = trace[m2][i].sell )
        => /\ \A i \in Calls(m1) : trace[m1][i].state = trace[m2][i].state
           /\ objective[m1] = objective[m2]

\* C2: once resource is 0 after a step with sell = 1, it is 0 after every
\* later step, whatever the later decisions and draws.
ResourceStaysSold ==
    \A m \in Built : \A i \in Returned(m), j \in Calls(m) :
        (i < j /\ trace[m][i].sell = 1 /\ trace[m][i].state.resource = 0)
        => trace[m][j].state.resource = 0

ResourceStaysSoldWitness ==
    \E m \in Built : \E i \in Returned(m), j \in Returned(m) :
        /\ i < j
        /\ trace[m][i].sell = 1
        /\ trace[m][i].before.resource # 0
        /\ trace[m][i].state.resource = 0
        /\ trace[m][j].sell # 1
        /\ trace[m][j].state.resource = 0

\* C3: the objective after each step is at least the objective before it.
ObjectiveNonDecreasing ==
    \A m \in Built : \A i \in Calls(m) :
        trace[m][i].objective >= ObjectiveBefore(m, i)

\* C4: every step installs a price >= 0: 0 when the price before the step plus
\* the drawn change is negative, and exactly that sum otherwise.
PriceNonNegative ==
    \A m \in Built : \A i \in Returned(m) :
        LET updated == trace[m][i].before.price + DeltaOf(m, i)
        IN  /\ trace[m][i].state.price >= 0
            /\ updated < 0 => trace[m][i].state.price = 0
            /\ updated >= 0 => trace[m][i].state.price = updated

PriceNonNegativeWitness ==
    \E m \in Built : \E i \in Returned(m), j \in Returned(m) :
        /\ trace[m][i].before.price + DeltaOf(m, i) < 0
        /\ trace[m][i].state.price = 0
        /\ trace[m][j].before.price + DeltaOf(m, j) > 0
        /\ trace[m][j].state.price > 0

\* C5, as claimed: a coin equal to the Up threshold of the row always selects
\* Neutral.
TieBreakSelectsNeutral ==
    \A m \in Built : \A i \in Returned(m) :
        trace[m][i].coin = trace[m][i].up => trace[m][i].state.bias = "Neutral"

\* C5, amended: a coin equal to the Up threshold of the row never selects Up;
\* it selects Neutral, with drift 0, when the Neutral threshold of the row is
\* above the Up threshold, and Down, with drift DownStep, when the two
\* thresholds coincide.
TieBreakNeverUp ==
    \A m \in Built : \A i \in Returned(m) :
        LET c == trace[m][i]
        IN  c.coin = c.up =>
              /\ c.state.bias # "Up"
              /\ c.up < c.neutral =>
                    /\ c.state.bias = "Neutral"
                    /\ DeltaOf(m, i) = Variance * c.z
              /\ c.up >= c.neutral =>
                    /\ c.state.bias = "Down"
                    /\ DeltaOf(m, i) = DownStep + Variance * c.z

TieBreakNeverUpWitness ==
    \E m \in Built : \E i \in Returned(m), j \in Returned(m) :
        /\ trace[m][i].coin = trace[m][i].up
        /\ trace[m][i].up = trace[m][i].neutral
        /\ trace[m][i].state.bias = "Down"
        /\ trace[m][j].coin = trace[m][j].up
        /\ trace[m][j].up < trace[m][j].neutral
        /\ trace[m][j].state.bias = "Neutral"

\* C6: a step adds to objective the price held before the step when sell = 1
\* and the resource before the step is not 0, and adds 0 otherwise.
RewardBeforeMutation ==
    \A m \in Built : \A i \in Returned(m) :
        LET c == trace[m][i]
        IN  c.objective - ObjectiveBefore(m, i) =
              IF c.sell = 1 /\ c.before.resource # 0 THEN c.before.price ELSE 0

RewardBeforeMutationWitness ==
    \E m \in Built : \E i \in Returned(m) :
        LET c == trace[m][i]
        IN  /\ c.sell = 1
            /\ c.before.resource # 0
            /\ c.before.price > 0
            /\ c.state.price # c.before.price
            /\ c.objective = ObjectiveBefore(m, i) + c.before.price

HoldThenSell ==
    \A m \in Built : \A n \in Returned(m) :
        ( /\ initial_state[m].resource = 1
          /\ trace[m][n].sell = 1
          /\ \A i \in 1 .. (n - 1) : trace[m][i].ok /\ trace[m][i].sell = 0 )
        => /\ trace[m][n].state.resource = 0
           /\ trace[m][n].objective =
                 IF n = 1 THEN initial_state[m].price
                 ELSE trace[m][n - 1].state.price

HoldThenSellWitness ==
    \E m \in Built : \E n \in Returned(m) :
        /\ n > 1
        /\ initial_state[m].resource = 1
        /\ trace[m][n].sell = 1
        /\ \A i \in 1 .. (n - 1) : trace[m][i].ok /\ trace[m][i].sell = 0
        /\ trace[m][n - 1].state.price # initial_state[m].price
        /\ trace[m][n].state.resource = 0
        /\ trace[m][n].objective = trace[m][n - 1].state.price

\* C9: the table an instance reads is the single row-wise cumulative sum of the
\* probabilities the caller supplied: rows non-decreasing and ending at 1.
CumulatedOnce ==
    \A m \in Built :
        /\ exog[ref[m]] = CumSum(RawBiasdf)
        /\ \A r \in Regimes :
              /\ exog[ref[m]][r].Up <= exog[ref[m]][r].Neutral
              /\ exog[ref[m]][r].Neutral <= exog[ref[m]][r].Down
              /\ exog[ref[m]][r].Down = ProbScale

\* C10: after every step bias is one of Up, Neutral, Down; so an instance whose
\* initial bias is a row key of biasdf never looks up a missing regime.
RegimeInvariant ==
    \A m \in Built :
        /\ \A i \in Returned(m) : trace[m][i].state.bias \in Regimes
        /\ initial_state[m].bias \in DOMAIN exog[ref[m]]
              => \A i \in Calls(m) : trace[m][i].ok

RegimeInvariantWitness ==
    \E m \in Built :
        /\ initial_state[m].bias \in Regimes
        /\ Len(trace[m]) >= 2
        /\ \A i \in Calls(m) : trace[m][i].ok
        /\ trace[m][1].state.bias # initial_state[m].bias
        /\ trace[m][2].state.bias \in Regimes

\* C11: no instance exists whose mapping was supplied with a biasdf row that
\* does not sum to 1: construction from such a table fails.
ConfigurationValidated ==
    \A m \in Built : RowsSumToOne(supplied[ref[m]])

\* C12: a step called with a bias that is no row key of biasdf fails and leaves
\* state, objective and the random source as they were.
InvalidRegimeAtomic ==
    \A m \in Built : \A i \in Calls(m) :
        LET c == trace[m][i]
        IN  c.before.bias \notin DOMAIN exog[ref[m]] =>
              /\ ~c.ok
              /\ c.state = c.before
              /\ c.objective = ObjectiveBefore(m, i)
              /\ c.rng = RngBefore(m, i)
              /\ i = Len(trace[m]) =>
                    /\ state[m] = c.before
                    /\ objective[m] = ObjectiveBefore(m, i)
                    /\ rngpos[m] = RngBefore(m, i)

InvalidRegimeAtomicWitness ==
    \E m \in Built : \E i \in Calls(m) :
        /\ trace[m][i].before.bias \notin DOMAIN exog[ref[m]]
        /\ trace[m][i].sell = 1
        /\ trace[m][i].before.resource # 0
        /\ trace[m][i].before.price # 0
        /\ ~trace[m][i].ok
        /\ state[m] = initial_state[m]
        /\ objective[m] = 0
        /\ rngpos[m] = 0

\* C13: every step that returns takes exactly two values from the random
\* source of its instance, a uniform one and then a normal one, whatever the
\* decision, the regime selected and the clamping of the price.
TwoDrawsPerStep ==
    \A m \in Built : \A i \in Returned(m) :
        LET c == trace[m][i]
            p == RngBefore(m, i)
        IN  /\ c.rng = p + 2
            /\ Len(stream[seed[m]]) >= p + 2
            /\ stream[seed[m]][p + 1] = <<"uniform", c.coin>>
            /\ stream[seed[m]][p + 2] = <<"normal", c.z>>
            /\ i = Len(trace[m]) => rngpos[m] = c.rng

TwoDrawsPerStepWitness ==
    \E m \in Built : \E i \in Returned(m), j \in Returned(m) :
        /\ i < j
        /\ trace[m][i].sell = 1
        /\ trace[m][j].sell # 1
        /\ trace[m][i].state.bias = "Neutral"
        /\ trace[m][j].state.bias = "Down"
        /\ trace[m][j].before.price + DeltaOf(m, j) < 0
        /\ trace[m][j].state.price = 0
        /\ rngpos[m] = 4

\* C14: with up and neutral the thresholds of the row keyed by the bias held
\* before the step, in the table as it is when step is called, the new regime
\* is Up when coin < up, Neutral when up <= coin < neutral and Down otherwise,
\* and the price change is drawn around UpStep, 0 or DownStep of the new regime.
RegimeSelection ==
    [][ \A m \in ModelIds :
          ( /\ built[m]
            /\ Len(trace'[m]) = Len(trace[m]) + 1
            /\ trace'[m][Len(trace'[m])].ok )
          => LET c       == trace'[m][Len(trace'[m])]
                 up      == exog[ref[m]][state[m].bias].Up
                 neutral == exog[ref[m]][state[m].bias].Neutral
                 new     == state'[m].bias
                 mean    == IF new = "Up" THEN UpStep
                            ELSE IF new = "Neutral" THEN 0 ELSE DownStep
                 updated == state[m].price + mean + Variance * c.z
             IN  /\ new = IF c.coin < up THEN "Up"
                          ELSE IF c.coin < neutral THEN "Neutral" ELSE "Down"
                 /\ state'[m].price = IF updated < 0 THEN 0 ELSE updated
      ]_vars

RegimeSelectionWitness ==
    \E m \in Built : \E i \in Returned(m), j \in Returned(m) :
        /\ trace[m][i].before.bias = "Neutral"
        /\ trace[m][i].state.bias = "Up"
        /\ trace[m][i].state.price = trace[m][i].before.price + UpStep
                                        + Variance * trace[m][i].z
        /\ trace[m][j].before.bias = "Up"
        /\ trace[m][j].state.bias = "Down"
        /\ trace[m][j].state.price = trace[m][j].before.price + DownStep
                                        + Variance * trace[m][j].z

HoldLeavesPosition ==
    \A m \in Built : \A i \in Returned(m) :
        LET c == trace[m][i]
        IN  c.sell # 1 =>
              /\ c.state.resource = c.before.resource
              /\ c.objective = ObjectiveBefore(m, i)

HoldLeavesPositionWitness ==
    \E m \in Built : \E i \in Returned(m) :
        LET c == trace[m][i]
        IN  /\ c.sell = 2
            /\ c.before.resource # 0
            /\ c.before.price # 0
            /\ c.state.resource = c.before.resource
            /\ c.objective = ObjectiveBefore(m, i)
            /\ c.state.price # c.before.price
            /\ c.state.bias # c.before.bias

\* the steps of m that sell: sell = 1 taken while the resource held is not 0
Sales(m) ==
    {i \in Returned(m) : trace[m][i].sell = 1 /\ trace[m][i].before.resource # 0}

\* C17: at most one step of a trajectory sells, no other step changes
\* objective, and objective ends at 0 or at the price held before that step.
SingleSale ==
    \A m \in Built :
        /\ Cardinality(Sales(m)) <= 1
        /\ \A i \in Calls(m) \ Sales(m) :
              trace[m][i].objective = ObjectiveBefore(m, i)
        /\ Sales(m) = {} => objective[m] = 0
        /\ \A i \in Sales(m) :
              /\ objective[m] = trace[m][i].before.price
              /\ \A j \in Returned(m) :
                    (j # i /\ trace[m][j].sell = 1) =>
                        (j > i /\ trace[m][j].before.resource = 0)

SingleSaleWitness ==
    \E m \in Built :
        /\ initial_state[m].resource = 2
        /\ Len(trace[m]) = 2
        /\ trace[m][1].ok /\ trace[m][1].sell = 1
        /\ trace[m][2].ok /\ trace[m][2].sell = 1
        /\ trace[m][2].before.price # 0
        /\ objective[m] = initial_state[m].price

====
